---- MODULE Spec2Model ----
(***************************************************************************)
(* Jamflow chat persistence service (server/src/controllers/chat.ts):      *)
(* the Express handlers over the Prisma tables Chat, Message and Snippet,  *)
(* executed as interleaved requests, and the segmentation of an assistant  *)
(* response into TEXT / CODE snippets.                                     *)
(***************************************************************************)
EXTENDS Integers, Sequences, FiniteSets, TLC

(***************************************************************************)
(* Bounds of the model.                                                    *)
(***************************************************************************)
\* chat ids ever allocated by createChat
MaxChats == 2
\* append-turn transactions ever started (two message ids each)
MaxTurns == 1
\* pieces concatenated into a response in SegSpec
MaxPieces == 5
\* characters of an LLM response relayed in RelaySpec
MaxText == 3
\* turns submitted on the chat page
MaxSubmits == 3
\* turns submitted on the chat page while the sidebar is in use
MaxShownTurns == 1

(***************************************************************************)
(* Strings are sequences of one-character strings.                         *)
(***************************************************************************)
\* the backtick character (written "~": a backtick cannot appear in a TLA+ string)
Backtick == "~"
Letters == {"a", "b", "n", "o", "t", "e"}
Spaces == {" ", "\n"}

IsLetter(c) == c \in Letters
IsSpace(c) == c \in Spaces

\* String.prototype.slice(a, b) with 0-based a <= b
Slice(s, a, b) == SubSeq(s, a + 1, b)

\* String.prototype.trim()
RECURSIVE TrimLeft(_)
TrimLeft(s) ==
  IF s # <<>> /\ IsSpace(Head(s)) THEN TrimLeft(Tail(s)) ELSE s
RECURSIVE TrimRight(_)
TrimRight(s) ==
  IF s # <<>> /\ IsSpace(s[Len(s)]) THEN TrimRight(SubSeq(s, 1, Len(s) - 1)) ELSE s
Trim(s) == TrimRight(TrimLeft(s))

\* a triple backtick starts at 0-based index i of s
FenceAt(s, i) ==
  /\ i + 3 <= Len(s)
  /\ s[i + 1] = Backtick /\ s[i + 2] = Backtick /\ s[i + 3] = Backtick

\* least 0-based index >= i where a triple backtick starts, or -1
RECURSIVE FindFence(_, _)
FindFence(s, i) ==
  IF i + 3 > Len(s) THEN -1
  ELSE IF FenceAt(s, i) THEN i ELSE FindFence(s, i + 1)

\* Array.from(response.matchAll(/```[\s\S]*?```/g)): the matches from index
\* `from` on, each with its 0-based start and (exclusive) end
RECURSIVE MatchAll(_, _)
MatchAll(s, from) ==
  LET i == FindFence(s, from) IN
  IF i < 0 THEN <<>>
  ELSE LET j == FindFence(s, i + 3) IN
       IF j < 0 THEN <<>>
       ELSE <<[start |-> i, end |-> j + 3]>> \o MatchAll(s, j + 3)

\* number of leading letters of s
RECURSIVE LetterRun(_)
LetterRun(s) ==
  IF s # <<>> /\ IsLetter(Head(s)) THEN 1 + LetterRun(Tail(s)) ELSE 0

\* m.replace(/^```[a-zA-Z]*\n?/, '')
StripOpenFence(m) ==
  IF ~FenceAt(m, 0) THEN m
  ELSE LET rest == Slice(m, 3, Len(m))
           k == LetterRun(rest)
           nl == IF k < Len(rest) /\ rest[k + 1] = "\n" THEN 1 ELSE 0
       IN Slice(rest, k + nl, Len(rest))

\* x.replace(/```$/, '')
StripCloseFence(x) ==
  IF Len(x) >= 3 /\ FenceAt(x, Len(x) - 3) THEN Slice(x, 0, Len(x) - 3) ELSE x

\* the content of the CODE snippet of one match of the fence regex
CodeContent(m) == Trim(StripCloseFence(StripOpenFence(m)))

\* str.replace(/```/g, '')
RECURSIVE RemoveFences(_)
RemoveFences(s) ==
  IF s = <<>> THEN <<>>
  ELSE IF FenceAt(s, 0) THEN RemoveFences(Slice(s, 3, Len(s)))
  ELSE <<Head(s)>> \o RemoveFences(Tail(s))

\* cleanBackticks without the trim
cleanBackticksNoTrim(str) == RemoveFences(str)

cleanBackticks(str) == Trim(RemoveFences(str))

\* the call names tested by isProbablyCode
CallNames ==
  { <<"s", "e", "t", "c", "p", "m">>, <<"s", "o", "u", "n", "d">>,
    <<"n", "o", "t", "e">>, <<"s", "t", "a", "c", "k">> }

\* /name\s*\(/ matches s at 0-based index i
CallAt(s, name, i) ==
  /\ i + Len(name) <= Len(s)
  /\ Slice(s, i, i + Len(name)) = name
  /\ LET rest == TrimLeft(Slice(s, i + Len(name), Len(s)))
     IN rest # <<>> /\ Head(rest) = "("

isProbablyCode(text) ==
  \E name \in CallNames : \E i \in 0..Len(text) : CallAt(text, name, i)

\* the split loop without order++ after a TEXT segment
RECURSIVE SplitFromSameOrder(_, _, _, _, _)
SplitFromSameOrder(response, matches, k, order, lastIndex) ==
  IF k > Len(matches)
  THEN LET tail == Trim(Slice(response, lastIndex, Len(response))) IN
       IF lastIndex < Len(response) /\ tail # <<>>
       THEN <<[type |-> "TEXT", content |-> tail, order |-> order]>>
       ELSE <<>>
  ELSE LET start == matches[k].start
           end == matches[k].end
           textSeg == Trim(Slice(response, lastIndex, start))
           hasText == start > lastIndex /\ textSeg # <<>>
       IN (IF hasText
           THEN <<[type |-> "TEXT", content |-> textSeg, order |-> order]>>
           ELSE <<>>)
          \o <<[type |-> "CODE",
                content |-> CodeContent(Slice(response, start, end)),
                order |-> order]>>
          \o SplitFromSameOrder(response, matches, k + 1, order + 1, end)

\* the split loop without the text before a block
RECURSIVE SplitFromNoTextBefore(_, _, _, _, _)
SplitFromNoTextBefore(response, matches, k, order, lastIndex) ==
  IF k > Len(matches)
  THEN LET tail == Trim(Slice(response, lastIndex, Len(response))) IN
       IF lastIndex < Len(response) /\ tail # <<>>
       THEN <<[type |-> "TEXT", content |-> tail, order |-> order]>>
       ELSE <<>>
  ELSE <<[type |-> "CODE",
          content |-> CodeContent(Slice(response, matches[k].start, matches[k].end)),
          order |-> order]>>
       \o SplitFromNoTextBefore(response, matches, k + 1, order + 1, matches[k].end)

\* the body of `for (const match of matches)` and the tail after it:
\* the snippets created from match number k on, given order and lastIndex
RECURSIVE SplitFrom(_, _, _, _, _)
SplitFrom(response, matches, k, order, lastIndex) ==
  IF k > Len(matches)
  THEN LET tail == Trim(Slice(response, lastIndex, Len(response))) IN
       IF lastIndex < Len(response) /\ tail # <<>>
       THEN <<[type |-> "TEXT", content |-> tail, order |-> order]>>
       ELSE <<>>
  ELSE LET start == matches[k].start
           end == matches[k].end
           textSeg == Trim(Slice(response, lastIndex, start))
           hasText == start > lastIndex /\ textSeg # <<>>
           codeOrder == IF hasText THEN order + 1 ELSE order
       IN (IF hasText
           THEN <<[type |-> "TEXT", content |-> textSeg, order |-> order]>>
           ELSE <<>>)
          \o <<[type |-> "CODE",
                content |-> CodeContent(Slice(response, start, end)),
                order |-> codeOrder]>>
          \o SplitFrom(response, matches, k + 1, codeOrder + 1, end)

\* the snippets generateResponseFromPrompt creates for the BOT message
SplitResponse(response) ==
  LET matches == MatchAll(response, 0) IN
  IF Len(matches) = 0
  THEN <<[type |-> IF isProbablyCode(response) THEN "CODE" ELSE "TEXT",
          content |-> cleanBackticks(response),
          order |-> 1]>>
  ELSE SplitFrom(response, matches, 1, 1, 0)

(***************************************************************************)
(* The database (Prisma over PostgreSQL) and the requests in flight.       *)
(***************************************************************************)
VARIABLES
  chats,      \* table Chat: id -> [userId, public]
  messages,   \* table Message: set of [id, chatId, from]
  snippets,   \* table Snippet: set of [messageId, type, content, order]
  nextChat,   \* ids handed out by prisma.chat.create
  nextMsg,    \* ids handed out by message.create
  req,        \* per connection: the request being handled and where it is,
              \* or the response sent last (pc = "done")
  relay,      \* the Next.js route POST /api/chat: its invocation, the
              \* response it returned and the stream behind it
  idp,        \* sign-up: the identities of the auth provider, table User,
              \* and the signUp request being handled
  page        \* the chat page in the browser: its React state, the
              \* handleSubmit invocations and the sidebar call in flight

vars == <<chats, messages, snippets, nextChat, nextMsg, req, relay, idp, page>>

Reqs == {"r1", "r2"}
Users == {"u1", "u2"}
ChatIds == 1..MaxChats
MaxMsgs == 2 * MaxTurns
MsgIds == 1..MaxMsgs

\* Authorization header of a request: absent, not a session, or a user's
NoToken == "none"
TokenOf == [u1 |-> "t1", u2 |-> "t2"]
Tokens == {NoToken, "bad", "t1", "t2"}

\* an identity service that takes every token for the first user's
validateJWTAnyToken(token) == [ok |-> TRUE, user |-> "u1"]

\* supabase.auth.getUser behind validateJWT: the user of a token, or a throw
validateJWT(token) ==
  IF \E u \in Users : TokenOf[u] = token
  THEN [ok |-> TRUE, user |-> CHOOSE u \in Users : TokenOf[u] = token]
  ELSE [ok |-> FALSE, user |-> ""]

\* an id in a URL is a chat id (1, 2, ...) or BadId, a non-empty string that
\* has not the form of an id; the empty string (0) matches no /:id route
BadId == -1
\* idSchema: z.object({ id: z.string().min(1) })
idSchemaOk(id) == id # 0
\* the public router's pattern of getChat: /chat/:id([0-9a-fA-F-]{36})
GetChatRoute(id) == id > 0

NoChat == [id |-> 0, userId |-> "", public |-> FALSE]
NoMessage == [id |-> 0, chatId |-> 0, from |-> ""]

Idle ==
  [pc |-> "idle", op |-> "", token |-> NoToken, user |-> "", id |-> 0,
   messageId |-> 0, prompt |-> <<>>, response |-> <<>>,
   chat |-> NoChat, message |-> NoMessage, found |-> {},
   insMsgs |-> {}, insSnips |-> {}, delSnips |-> {}, delMsgs |-> {},
   status |-> 0, body |-> {}]

\* a connection is free before its first request and after each response
Free(r) == req[r].pc \in {"idle", "done"}

\* a handler that throws out of an async Express handler sends nothing
NoAnswer == 0

\* bodies sent to the private routes
AppendPrompts == {<<"a">>}
EditPrompts == {<<"b">>}
Fence == <<Backtick, Backtick, Backtick>>
Responses == { <<>>, <<"a">> \o Fence \o <<"\n", "b">> \o Fence \o <<"a">> }

Requests ==
  {[op |-> "createChat", id |-> 0, messageId |-> 0, prompt |-> <<>>,
    response |-> <<>>]}
  \cup {[op |-> o, id |-> i, messageId |-> 0, prompt |-> <<>>, response |-> <<>>] :
          o \in {"deleteChat", "shareChat", "unshareChat"}, i \in ChatIds}
  \cup {[op |-> "updateChat", id |-> i, messageId |-> m, prompt |-> p,
         response |-> <<>>] : i \in ChatIds, m \in 0..MaxMsgs, p \in EditPrompts}
  \cup {[op |-> "append", id |-> i, messageId |-> 0, prompt |-> p, response |-> x] :
          i \in ChatIds, p \in AppendPrompts, x \in Responses}

\* res.status(status).json(...) : the request ends
Answer(q, chat, status, body) ==
  [Idle EXCEPT !.pc = "done", !.op = q.op, !.token = q.token, !.id = q.id,
               !.response = q.response, !.chat = chat, !.status = status,
               !.body = body]

Respond(r, status, body) ==
  req' = [req EXCEPT ![r] = Answer(req[r], req[r].chat, status, body)]

\* prisma.chat.findUnique({ where: { id } })
findChat(id) ==
  IF id \in DOMAIN chats
  THEN [id |-> id, userId |-> chats[id].userId, public |-> chats[id].public]
  ELSE NoChat

\* tx.message.findMany / deleteMany ({ where: { chatId } })
MessagesOf(id) == {m \in messages : m.chatId = id}

\* a chat read that includes the messages of every chat
IncludeAllMessages(id) == messages

\* the rows that include: { messages: true } adds to a chat read
IncludeMessages(id) == {m \in messages : m.chatId = id}

SnippetsOf(ms) == {s \in snippets : \E m \in ms : s.messageId = m.id}

(***************************************************************************)
(* Row locks of open transactions (PostgreSQL, READ COMMITTED): rows a     *)
(* transaction has deleted, and chats referenced by rows it has inserted,  *)
(* make other writers of these rows wait until it ends.                    *)
(***************************************************************************)
Others(r) == Reqs \ {r}
SnippetLocked(r, ss) == \E o \in Others(r) : req[o].delSnips \cap ss # {}
MessageLocked(r, ms) == \E o \in Others(r) : req[o].delMsgs \cap ms # {}
ChatReferenced(r, id) ==
  \E o \in Others(r) : \E m \in req[o].insMsgs : m.chatId = id

\* append turns that may still take message ids
Pending(r) ==
  IF req[r].op # "append" THEN 0
  ELSE IF req[r].pc \in {"handler", "txUserMessage"} THEN 2
  ELSE IF req[r].pc \in {"txUserSnippet", "txBotMessage"} THEN 1
  ELSE 0
RECURSIVE SumPending(_)
SumPending(rs) ==
  IF rs = {} THEN 0
  ELSE LET r == CHOOSE x \in rs : TRUE IN Pending(r) + SumPending(rs \ {r})
Creating == Cardinality({r \in Reqs : req[r].op = "createChat"})

\* no invocation of POST /api/chat yet
NoBody == [json |-> "", kind |-> "", roles |-> <<>>]
RelayIdle ==
  [pc |-> "idle", body |-> NoBody, called |-> FALSE, outcome |-> "",
   error |-> <<>>, status |-> 0, type |-> "", hasCode |-> "", text |-> <<>>,
   i |-> 0, chunks |-> <<>>, timer |-> FALSE, isClosed |-> FALSE, closes |-> 0,
   cancelled |-> FALSE, lateCall |-> FALSE]

\* the chat page once initializeChat has set chatId to the user's chat:
\* nothing typed, no turn submitted, no sidebar call in flight
Turns == 1..MaxSubmits
NoTurn ==
  [pc |-> "none", chatId |-> 0, accumulated |-> <<>>, stopSeen |-> FALSE,
   outcome |-> ""]
NoNav == [op |-> "none", chat |-> 0, from |-> 0]
PageIdle ==
  [isLoading |-> FALSE, ctrl |-> 0, chatId |-> 1, input |-> "",
   messages |-> <<>>, turns |-> <<>>, next |-> 1,
   saved |-> {}, persisted |-> {}, nav |-> NoNav, chats |-> {1},
   nextChat |-> 2]

\* no signUp request yet, no identity at the provider, no User row
NoSignUp == [username |-> "", email |-> "", password |-> ""]
IdpIdle ==
  [pc |-> "idle", body |-> NoSignUp, identity |-> 0, identities |-> {},
   users |-> {}, next |-> 1, status |-> 0,
   password |-> [u \in Users |-> "Pw1!"], signedOut |-> {}]

Init ==
  /\ chats = <<>>
  /\ messages = {}
  /\ snippets = {}
  /\ nextChat = 1
  /\ nextMsg = 1
  /\ req = [r \in Reqs |-> Idle]
  /\ relay = RelayIdle
  /\ idp = IdpIdle
  /\ page = PageIdle

(***************************************************************************)
(* middleware.ts validateToken, in front of every private route            *)
(***************************************************************************)
validateToken(r, token, q) ==
  /\ Free(r)
  /\ q.op = "createChat" => nextChat + Creating <= MaxChats
  /\ q.op = "append" => (nextMsg - 1) + SumPending(Reqs) + 2 <= MaxMsgs
  /\ LET auth == validateJWT(token)
         arrived == [Idle EXCEPT !.op = q.op, !.token = token, !.id = q.id,
                                 !.messageId = q.messageId, !.prompt = q.prompt,
                                 !.response = q.response]
         refused == [Idle EXCEPT !.op = q.op, !.token = token]
     IN IF token = NoToken
        THEN req' = [req EXCEPT ![r] = Answer(refused, NoChat, 400, {})]
        ELSE IF ~auth.ok
        THEN req' = [req EXCEPT ![r] = Answer(refused, NoChat, 401, {})]
        ELSE req' = [req EXCEPT ![r] = [arrived EXCEPT !.pc = "handler",
                                                       !.user = auth.user]]
  /\ UNCHANGED <<chats, messages, snippets, nextChat, nextMsg>>

(***************************************************************************)
(* getChat (GET /chat/:id, public router: no middleware)                   *)
(***************************************************************************)
\* getChat without the comparison of the token's user with the owner
GetChatStatusAnyUser(chat, token) ==
  IF chat.id = 0 THEN 404
  ELSE IF chat.public THEN 200
  ELSE IF token = NoToken THEN 400
  ELSE IF ~validateJWT(token).ok THEN 401
  ELSE 200

\* the status getChat answers for the chat it found and the request's token
GetChatStatus(chat, token) ==
  IF chat.id = 0 THEN 404
  ELSE IF chat.public THEN 200
  ELSE IF token = NoToken THEN 400
  ELSE IF ~validateJWT(token).ok THEN 401
  ELSE IF chat.userId # validateJWT(token).user THEN 403
  ELSE 200

\* getFilteredMessages(chat): the messages included in the chat read
getFilteredMessages(ms) == {[id |-> m.id, from |-> m.from] : m \in ms}

\* prisma.chat.findUnique({ where: { id }, include: { messages: true } })
GetChatFind(r, token, id) ==
  /\ Free(r)
  /\ GetChatRoute(id)
  /\ LET chat == findChat(id)
         arrived == [Idle EXCEPT !.op = "getChat", !.token = token, !.id = id]
     IN IF ~idSchemaOk(id)
        THEN req' = [req EXCEPT ![r] = Answer(arrived, NoChat, 400, {})]
        ELSE IF chat.id = 0
        THEN req' = [req EXCEPT ![r] = Answer(arrived, NoChat, 404, {})]
        ELSE req' = [req EXCEPT ![r] = [arrived EXCEPT !.pc = "getChatFound",
                                                       !.chat = chat,
                                                       !.found = IncludeMessages(id)]]
  /\ UNCHANGED <<chats, messages, snippets, nextChat, nextMsg>>

\* GET /chat/:id with an id that the public route's pattern does not match
\* falls through to the private router: validateToken, then no GET route
\* there, and Express answers 404
GetChatNoRoute(r, token, id) ==
  /\ Free(r)
  /\ ~GetChatRoute(id)
  /\ LET arrived == [Idle EXCEPT !.op = "getChat", !.token = token, !.id = id]
         status == IF token = NoToken THEN 400
                   ELSE IF ~validateJWT(token).ok THEN 401
                   ELSE 404
     IN req' = [req EXCEPT ![r] = Answer(arrived, NoChat, status, {})]
  /\ UNCHANGED <<chats, messages, snippets, nextChat, nextMsg>>

\* the token check of a private chat, getFilteredMessages and the answer
GetChatRespond(r) ==
  /\ req[r].pc = "getChatFound"
  /\ LET status == GetChatStatus(req[r].chat, req[r].token) IN
     Respond(r, status,
             IF status = 200 THEN getFilteredMessages(req[r].found) ELSE {})
  /\ UNCHANGED <<chats, messages, snippets, nextChat, nextMsg>>

(***************************************************************************)
(* createChat (POST /chat)                                                 *)
(***************************************************************************)
\* createChat creating the chat public
NewChatPublic(userId) == [userId |-> userId, public |-> TRUE]

\* prisma.chat.create({ data: { userId, public: false } })
NewChat(userId) == [userId |-> userId, public |-> FALSE]

CreateChat(r) ==
  /\ req[r].pc = "handler" /\ req[r].op = "createChat"
  /\ chats' = chats @@ (nextChat :> NewChat(req[r].user))
  /\ nextChat' = nextChat + 1
  /\ Respond(r, 201, {nextChat})
  /\ UNCHANGED <<messages, snippets, nextMsg>>

(***************************************************************************)
(* the chat lookup and ownership check that open updateChat, deleteChat,   *)
(* shareChat and unshareChat                                               *)
(***************************************************************************)
\* the ownership check comparing the chat's owner with itself
NotOwnerSelfCompare(chat, userId) == chat.userId # chat.userId

\* chat.userId !== userId
NotOwner(chat, userId) == chat.userId # userId

\* the body check of updateChatSchema: messageId is a non-empty string
UpdateBodyOk(q) == q.messageId # 0

FindOwnedChat(r, op, next) ==
  /\ req[r].pc = "handler" /\ req[r].op = op
  /\ LET chat == findChat(req[r].id) IN
     IF ~idSchemaOk(req[r].id) \/ (op = "updateChat" /\ ~UpdateBodyOk(req[r]))
     THEN Respond(r, 400, {})
     ELSE IF chat.id = 0 THEN Respond(r, 404, {})
     ELSE IF NotOwner(chat, req[r].user)
     THEN req' = [req EXCEPT ![r] = Answer(req[r], chat, 403, {})]
     ELSE req' = [req EXCEPT ![r].pc = next, ![r].chat = chat]
  /\ UNCHANGED <<chats, messages, snippets, nextChat, nextMsg>>

(***************************************************************************)
(* updateChat (PUT /chat/:id)                                              *)
(***************************************************************************)
UpdateFindChat(r) == FindOwnedChat(r, "updateChat", "updFindMessage")

\* prisma.message.findUnique({ where: { id: messageId } })
findMessage(messageId) ==
  IF \E m \in messages : m.id = messageId
  THEN CHOOSE m \in messages : m.id = messageId
  ELSE NoMessage

UpdateFindMessage(r) ==
  /\ req[r].pc = "updFindMessage"
  /\ LET message == findMessage(req[r].messageId) IN
     IF message.id = 0 THEN Respond(r, 404, {})
     ELSE IF message.from # "USER" THEN Respond(r, 403, {})
     ELSE req' = [req EXCEPT ![r].pc = "updWrite", ![r].message = message]
  /\ UNCHANGED <<chats, messages, snippets, nextChat, nextMsg>>

\* updateMany without its where clause
UpdateAllSnippets(messageId, prompt) ==
  {[s EXCEPT !.content = prompt] : s \in snippets}

\* prisma.snippet.updateMany({ where: { messageId }, data: { content } })
UpdateSnippets(messageId, prompt) ==
  {IF s.messageId = messageId THEN [s EXCEPT !.content = prompt] ELSE s :
     s \in snippets}

UpdateWrite(r) ==
  /\ req[r].pc = "updWrite"
  /\ ~SnippetLocked(r, {s \in snippets : s.messageId = req[r].message.id})
  /\ snippets' = UpdateSnippets(req[r].message.id, req[r].prompt)
  /\ Respond(r, 200, {})
  /\ UNCHANGED <<chats, messages, nextChat, nextMsg>>

(***************************************************************************)
(* shareChat / unshareChat (POST /share/:id, POST /unshare/:id)            *)
(***************************************************************************)
ShareFindChat(r) == FindOwnedChat(r, "shareChat", "shareUpdate")
UnshareFindChat(r) == FindOwnedChat(r, "unshareChat", "unshareUpdate")

\* prisma.chat.update({ where: { id }, data: { public } })
SetPublic(cs, id, public) == [cs EXCEPT ![id].public = public]
\* unshareChat written as a copy of shareChat
UnsharePublicCopied(cs, id) == SetPublic(cs, id, TRUE)
SharePublic(cs, id) == SetPublic(cs, id, TRUE)
UnsharePublic(cs, id) == SetPublic(cs, id, FALSE)

ShareUpdate(r) ==
  /\ req[r].pc = "shareUpdate"
  /\ IF req[r].id \in DOMAIN chats
     THEN chats' = SharePublic(chats, req[r].id) /\ Respond(r, 200, {})
     ELSE UNCHANGED chats /\ Respond(r, 500, {})
  /\ UNCHANGED <<messages, snippets, nextChat, nextMsg>>

UnshareUpdate(r) ==
  /\ req[r].pc = "unshareUpdate"
  /\ IF req[r].id \in DOMAIN chats
     THEN chats' = UnsharePublic(chats, req[r].id) /\ Respond(r, 200, {})
     ELSE UNCHANGED chats /\ Respond(r, 500, {})
  /\ UNCHANGED <<messages, snippets, nextChat, nextMsg>>

(***************************************************************************)
(* deleteChat (DELETE /chat/:id): the lookup, then one transaction         *)
(***************************************************************************)
DeleteFindChat(r) == FindOwnedChat(r, "deleteChat", "delTxFind")

\* tx.message.findMany({ where: { chatId: chat.id } })
DeleteTxFindMessages(r) ==
  /\ req[r].pc = "delTxFind"
  /\ req' = [req EXCEPT ![r].pc = "delTxSnippets",
                        ![r].found = MessagesOf(req[r].chat.id)]
  /\ UNCHANGED <<chats, messages, snippets, nextChat, nextMsg>>

\* the delete issued on prisma instead of tx: applied at once
DeleteSnippetsOutsideTx(r, targets) ==
  /\ req' = [req EXCEPT ![r].pc = "delTxMessages"]
  /\ snippets' = snippets \ targets

\* a delete issued on the transaction client: held back until the commit
DeleteSnippetsInTx(r, targets) ==
  /\ req' = [req EXCEPT ![r].pc = "delTxMessages", ![r].delSnips = targets]
  /\ UNCHANGED snippets

\* for (const message of messages) tx.snippet.deleteMany({ where: { messageId } })
DeleteTxSnippets(r) ==
  /\ req[r].pc = "delTxSnippets"
  /\ LET targets == SnippetsOf(req[r].found) IN
     /\ ~SnippetLocked(r, targets)
     /\ DeleteSnippetsInTx(r, targets)
  /\ UNCHANGED <<chats, messages, nextChat, nextMsg>>

\* deleteChat whose catch does not return
DeleteStatusAlwaysOk(committed) == 200

\* the answer after the transaction: 200 when it committed, 500 from the catch
DeleteStatus(committed) == IF committed THEN 200 ELSE 500

\* foreign key Snippet.messageId: no snippet may be left on a deleted message
SnippetsLeft(r, targets) == SnippetsOf(targets) \ req[r].delSnips

\* tx.message.deleteMany({ where: { chatId: chat.id } })
DeleteTxMessages(r) ==
  /\ req[r].pc = "delTxMessages"
  /\ LET targets == MessagesOf(req[r].chat.id) IN
     /\ ~MessageLocked(r, targets)
     /\ ~SnippetLocked(r, SnippetsOf(targets))
     /\ IF SnippetsLeft(r, targets) # {}
        THEN Respond(r, DeleteStatus(FALSE), {})
        ELSE req' = [req EXCEPT ![r].pc = "delTxChat", ![r].delMsgs = targets]
  /\ UNCHANGED <<chats, messages, snippets, nextChat, nextMsg>>

\* foreign key Message.chatId: no message may be left on a deleted chat
MessagesLeft(r, id) == MessagesOf(id) \ req[r].delMsgs

\* tx.chat.delete({ where: { id: chat.id } }) and the commit
DeleteTxChat(r) ==
  /\ req[r].pc = "delTxChat"
  /\ LET id == req[r].chat.id
         committed == id \in DOMAIN chats /\ MessagesLeft(r, id) = {}
     IN /\ ~ChatReferenced(r, id)
        /\ ~MessageLocked(r, MessagesOf(id))
        /\ IF committed
           THEN /\ chats' = [c \in DOMAIN chats \ {id} |-> chats[c]]
                /\ messages' = messages \ req[r].delMsgs
                /\ snippets' = snippets \ req[r].delSnips
           ELSE UNCHANGED <<chats, messages, snippets>>
        /\ Respond(r, DeleteStatus(committed), {})
  /\ UNCHANGED <<nextChat, nextMsg>>

(***************************************************************************)
(* generateResponseFromPrompt (POST /chat/:id): the lookup, then one       *)
(* transaction that inserts the USER and the BOT message of the turn       *)
(***************************************************************************)
\* generateResponseFromPromptSchema: prompt and response are non-empty
AppendBodyOk(q) == q.prompt # <<>> /\ q.response # <<>>

\* !chat.public && chat.userId !== userId
AppendForbidden(chat, userId) == ~chat.public /\ chat.userId # userId

AppendFindChat(r) ==
  /\ req[r].pc = "handler" /\ req[r].op = "append"
  /\ LET chat == findChat(req[r].id) IN
     IF ~idSchemaOk(req[r].id) \/ ~AppendBodyOk(req[r]) THEN Respond(r, 400, {})
     ELSE IF chat.id = 0 THEN Respond(r, 404, {})
     ELSE IF AppendForbidden(chat, req[r].user)
     THEN req' = [req EXCEPT ![r] = Answer(req[r], chat, 403, {})]
     ELSE req' = [req EXCEPT ![r].pc = "txUserMessage", ![r].chat = chat]
  /\ UNCHANGED <<chats, messages, snippets, nextChat, nextMsg>>

\* the message of the turn a transaction has inserted for one direction
TurnMessage(r, from) == CHOOSE m \in req[r].insMsgs : m.from = from

\* foreign key Message.chatId: a message is inserted only on an existing chat
ChatRowExists(id) == id \in DOMAIN chats

\* tx.message.create({ data: { from, chatId: chat.id } }); the foreign key
\* Message.chatId makes it throw when the chat is gone, and nothing catches it
TxCreateMessage(r, from, next) ==
  IF ~ChatRowExists(req[r].chat.id)
  THEN Respond(r, NoAnswer, {}) /\ UNCHANGED nextMsg
  ELSE /\ req' = [req EXCEPT
                    ![r].pc = next,
                    ![r].insMsgs = @ \cup {[id |-> nextMsg,
                                            chatId |-> req[r].chat.id,
                                            from |-> from]}]
       /\ nextMsg' = nextMsg + 1

TxCreateUserMessage(r) ==
  /\ req[r].pc = "txUserMessage"
  /\ TxCreateMessage(r, "USER", "txUserSnippet")
  /\ UNCHANGED <<chats, messages, snippets, nextChat>>

\* tx.snippet.create({ type: TEXT, messageId: userMessage.id, content: prompt, order: 1 })
TxCreateUserSnippet(r) ==
  /\ req[r].pc = "txUserSnippet"
  /\ req' = [req EXCEPT
               ![r].pc = "txBotMessage",
               ![r].insSnips = @ \cup {[messageId |-> TurnMessage(r, "USER").id,
                                        type |-> "TEXT",
                                        content |-> req[r].prompt,
                                        order |-> 1]}]
  /\ UNCHANGED <<chats, messages, snippets, nextChat, nextMsg>>

TxCreateBotMessage(r) ==
  /\ req[r].pc = "txBotMessage"
  /\ TxCreateMessage(r, "BOT", "txBotSnippets")
  /\ UNCHANGED <<chats, messages, snippets, nextChat>>

\* the snippet rows of the BOT message
BotSnippets(messageId, response) ==
  LET split == SplitResponse(response) IN
  {[messageId |-> messageId, type |-> split[k].type,
    content |-> split[k].content, order |-> split[k].order] :
     k \in 1..Len(split)}

\* the tx.snippet.create calls of the split, and the commit of the turn
TxCreateBotSnippets(r) ==
  /\ req[r].pc = "txBotSnippets"
  /\ messages' = messages \cup req[r].insMsgs
  /\ snippets' = snippets \cup req[r].insSnips
                   \cup BotSnippets(TurnMessage(r, "BOT").id, req[r].response)
  /\ Respond(r, 200, {})
  /\ UNCHANGED <<chats, nextChat, nextMsg>>

(***************************************************************************)
(* The service, one request at a time: every route, every kind of token.   *)
(***************************************************************************)
\* the requests worth telling apart: ids up to the first one never allocated,
\* and one request per route when the middleware is going to refuse the token
Sent(token) ==
  {q \in Requests :
     /\ q.id <= nextChat
     /\ q.messageId <= nextMsg
     /\ ~validateJWT(token).ok =>
          q.id <= 1 /\ q.messageId = 0 /\ q.response = <<>>}

Next ==
  /\ UNCHANGED <<relay, idp, page>>
  /\ \E r \in {"r1"} :
       \/ Free(r) /\ \E token \in Tokens : \E q \in Sent(token) : validateToken(r, token, q)
       \/ Free(r) /\ \E token \in Tokens, id \in ChatIds :
            id <= nextChat /\ GetChatFind(r, token, id)
       \/ GetChatRespond(r)
       \/ CreateChat(r)
       \/ UpdateFindChat(r)
       \/ UpdateFindMessage(r)
       \/ UpdateWrite(r)
       \/ ShareFindChat(r)
       \/ ShareUpdate(r)
       \/ UnshareFindChat(r)
       \/ UnshareUpdate(r)
       \/ DeleteFindChat(r)
       \/ DeleteTxFindMessages(r)
       \/ DeleteTxSnippets(r)
       \/ DeleteTxMessages(r)
       \/ DeleteTxChat(r)
       \/ AppendFindChat(r)
       \/ TxCreateUserMessage(r)
       \/ TxCreateUserSnippet(r)
       \/ TxCreateBotMessage(r)
       \/ TxCreateBotSnippets(r)

Spec == Init /\ [][Next]_vars

(***************************************************************************)
(* Two connections whose create, append-turn and delete requests run       *)
(* interleaved at every await, transactions included.                      *)
(***************************************************************************)
RaceRequests ==
  {q \in Requests : /\ q.op \in {"createChat", "deleteChat", "append"}
                    /\ q.op = "append" => AppendBodyOk(q)}

RaceNext ==
  /\ UNCHANGED <<relay, idp, page>>
  /\ \E r \in Reqs :
       \/ \E u \in Users, q \in RaceRequests : validateToken(r, TokenOf[u], q)
       \/ CreateChat(r)
       \/ DeleteFindChat(r)
       \/ DeleteTxFindMessages(r)
       \/ DeleteTxSnippets(r)
       \/ DeleteTxMessages(r)
       \/ DeleteTxChat(r)
       \/ AppendFindChat(r)
       \/ TxCreateUserMessage(r)
       \/ TxCreateUserSnippet(r)
       \/ TxCreateBotMessage(r)
       \/ TxCreateBotSnippets(r)

RaceSpec == Init /\ [][RaceNext]_vars

(***************************************************************************)
(* Two append-turn requests of the owner on one chat, both past the        *)
(* middleware, their lookups and transactions interleaved at every await.  *)
(***************************************************************************)
OverlapInit ==
  /\ chats = (1 :> NewChat("u1"))
  /\ messages = {}
  /\ snippets = {}
  /\ nextChat = 2
  /\ nextMsg = 1
  /\ relay = RelayIdle
  /\ idp = IdpIdle
  /\ page = PageIdle
  /\ \E x \in [Reqs -> {<<"a">>} \cup (Responses \ {<<>>})] :
       req = [r \in Reqs |->
                [Idle EXCEPT !.pc = "handler", !.op = "append",
                             !.token = TokenOf["u1"], !.user = "u1",
                             !.id = 1, !.prompt = <<"a">>,
                             !.response = x[r]]]

OverlapNext ==
  /\ UNCHANGED <<relay, idp, page>>
  /\ \E r \in Reqs :
       \/ AppendFindChat(r)
       \/ TxCreateUserMessage(r)
       \/ TxCreateUserSnippet(r)
       \/ TxCreateBotMessage(r)
       \/ TxCreateBotSnippets(r)

OverlapSpec == OverlapInit /\ [][OverlapNext]_vars

\* Message.createdAt: message.create stamps the row when the statement runs,
\* and nextMsg hands out the ids in the order of the statements
CreatedBefore(m1, m2) == m1.id < m2.id

(***************************************************************************)
(* One user's requests, one at a time, with ids of any form in the URL.    *)
(***************************************************************************)
InputRequests ==
  Requests \cup {[q EXCEPT !.id = BadId] : q \in {x \in Requests : x.op # "createChat"}}

InputNext ==
  /\ UNCHANGED <<relay, idp, page>>
  /\ \E r \in {"r1"} :
       \/ \E q \in {x \in InputRequests : x.id <= nextChat /\ x.messageId <= nextMsg} :
            validateToken(r, TokenOf["u1"], q)
       \/ \E token \in {NoToken, TokenOf["u1"]}, id \in ChatIds :
            id <= nextChat /\ GetChatFind(r, token, id)
       \/ \E token \in Tokens : GetChatNoRoute(r, token, BadId)
       \/ GetChatRespond(r)
       \/ CreateChat(r)
       \/ UpdateFindChat(r)
       \/ UpdateFindMessage(r)
       \/ UpdateWrite(r)
       \/ ShareFindChat(r)
       \/ ShareUpdate(r)
       \/ UnshareFindChat(r)
       \/ UnshareUpdate(r)
       \/ DeleteFindChat(r)
       \/ DeleteTxFindMessages(r)
       \/ DeleteTxSnippets(r)
       \/ DeleteTxMessages(r)
       \/ DeleteTxChat(r)
       \/ AppendFindChat(r)
       \/ TxCreateUserMessage(r)
       \/ TxCreateUserSnippet(r)
       \/ TxCreateBotMessage(r)
       \/ TxCreateBotSnippets(r)

InputSpec == Init /\ [][InputNext]_vars

(***************************************************************************)
(* Persistence failures: any Prisma call of a handler may throw (database  *)
(* unreachable, statement timeout).  What happens next depends on whether  *)
(* the call stands inside a try/catch.                                     *)
(***************************************************************************)
\* prisma.chat.findUnique with include throws in getChat: no try around it
GetChatFindThrows(r, token, id) ==
  /\ Free(r)
  /\ req' = [req EXCEPT ![r] =
               Answer([Idle EXCEPT !.op = "getChat", !.token = token, !.id = id],
                      NoChat, NoAnswer, {})]
  /\ UNCHANGED <<chats, messages, snippets, nextChat, nextMsg>>

\* the chat lookup of the other handlers, or the message lookup of updateChat,
\* throws: they stand outside the handlers' try blocks
LookupThrows(r) ==
  /\ \/ /\ req[r].pc = "handler"
        /\ req[r].op \in {"updateChat", "deleteChat", "shareChat",
                          "unshareChat", "append"}
        /\ req[r].op = "updateChat" => UpdateBodyOk(req[r])
        /\ req[r].op = "append" => AppendBodyOk(req[r])
     \/ req[r].pc = "updFindMessage"
  /\ Respond(r, NoAnswer, {})
  /\ UNCHANGED <<chats, messages, snippets, nextChat, nextMsg>>

\* chat.create, snippet.updateMany or chat.update throws inside its try
WriteThrows(r) ==
  /\ \/ req[r].pc = "handler" /\ req[r].op = "createChat"
     \/ req[r].pc \in {"updWrite", "shareUpdate", "unshareUpdate"}
  /\ Respond(r, 500, {})
  /\ UNCHANGED <<chats, messages, snippets, nextChat, nextMsg>>

\* a statement of the delete transaction throws: rollback, then the catch
DeleteTxThrows(r) ==
  /\ req[r].pc \in {"delTxFind", "delTxSnippets", "delTxMessages", "delTxChat"}
  /\ Respond(r, DeleteStatus(FALSE), {})
  /\ UNCHANGED <<chats, messages, snippets, nextChat, nextMsg>>

\* the append transaction without its rollback: what the statements had
\* inserted before the failure stays in the tables
AppendTxThrowsNoRollback(r) ==
  /\ req[r].pc \in {"txUserMessage", "txUserSnippet", "txBotMessage",
                    "txBotSnippets"}
  /\ messages' = messages \cup req[r].insMsgs
  /\ snippets' = snippets \cup req[r].insSnips
  /\ Respond(r, NoAnswer, {})
  /\ UNCHANGED <<chats, nextChat, nextMsg>>

\* a statement of the append transaction throws: rollback, and nothing
\* catches the rejection of prisma.$transaction
AppendTxThrows(r) ==
  /\ req[r].pc \in {"txUserMessage", "txUserSnippet", "txBotMessage",
                    "txBotSnippets"}
  /\ Respond(r, NoAnswer, {})
  /\ UNCHANGED <<chats, messages, snippets, nextChat, nextMsg>>

\* one user's requests, one at a time, over a database that may fail
FaultNext ==
  /\ UNCHANGED <<relay, idp, page>>
  /\ \E r \in {"r1"} :
       \/ \E q \in Sent(TokenOf["u1"]) : validateToken(r, TokenOf["u1"], q)
       \/ \E id \in ChatIds : id <= nextChat /\ GetChatFind(r, TokenOf["u1"], id)
       \/ \E id \in ChatIds :
            id <= nextChat /\ GetChatFindThrows(r, TokenOf["u1"], id)
       \/ GetChatRespond(r)
       \/ CreateChat(r)
       \/ UpdateFindChat(r)
       \/ UpdateFindMessage(r)
       \/ UpdateWrite(r)
       \/ ShareFindChat(r)
       \/ ShareUpdate(r)
       \/ UnshareFindChat(r)
       \/ UnshareUpdate(r)
       \/ DeleteFindChat(r)
       \/ DeleteTxFindMessages(r)
       \/ DeleteTxSnippets(r)
       \/ DeleteTxMessages(r)
       \/ DeleteTxChat(r)
       \/ AppendFindChat(r)
       \/ TxCreateUserMessage(r)
       \/ TxCreateUserSnippet(r)
       \/ TxCreateBotMessage(r)
       \/ TxCreateBotSnippets(r)
       \/ LookupThrows(r)
       \/ WriteThrows(r)
       \/ DeleteTxThrows(r)
       \/ AppendTxThrows(r)

FaultSpec == Init /\ [][FaultNext]_vars

(***************************************************************************)
(* One append-turn request of the owner on a fresh chat, for every         *)
(* response built from at most MaxPieces pieces.                           *)
(***************************************************************************)
Pieces ==
  {Fence, <<Backtick>>, <<"a">>, <<"\n">>, <<" ">>, <<"n", "o", "t", "e">>, <<"(">>}

RECURSIVE Concats(_)
Concats(n) ==
  IF n = 0 THEN {<<>>}
  ELSE LET shorter == Concats(n - 1) IN
       shorter \cup {x \o p : x \in shorter, p \in Pieces}

SegResponses == Concats(MaxPieces) \ {<<>>}

SegInit ==
  /\ chats = (1 :> NewChat("u1"))
  /\ messages = {}
  /\ snippets = {}
  /\ nextChat = 2
  /\ nextMsg = 1
  /\ relay = RelayIdle
  /\ idp = IdpIdle
  /\ page = PageIdle
  /\ \E response \in SegResponses :
       req = [r \in Reqs |->
                IF r = "r1"
                THEN [Idle EXCEPT !.pc = "handler", !.op = "append",
                                  !.token = TokenOf["u1"], !.user = "u1",
                                  !.id = 1, !.prompt = <<"a">>,
                                  !.response = response]
                ELSE Idle]

SegNext ==
  /\ UNCHANGED <<relay, idp, page>>
  /\ \/ AppendFindChat("r1")
     \/ TxCreateUserMessage("r1")
     \/ TxCreateUserSnippet("r1")
     \/ TxCreateBotMessage("r1")
     \/ TxCreateBotSnippets("r1")

SegSpec == SegInit /\ [][SegNext]_vars

(***************************************************************************)
(* POST /api/chat (jamflow-frontend/src/app/api/chat/route.ts): the body   *)
(* check, the LLM call and the relay of its answer through a timer.  Text  *)
(* is a sequence of UTF-16 code units, "Hi" "Lo" being the surrogate pair  *)
(* of one character outside the basic plane; chunks are UTF-8 bytes.       *)
(***************************************************************************)
Surrogates == {"Hi", "Lo"}
\* UTF-8 of U+FFFD, which TextEncoder puts for a surrogate without its mate
Replacement == <<"EF", "BF", "BD">>
\* UTF-8 of the character that the pair Hi Lo encodes
Astral == <<"F0", "9F", "8E", "B5">>

\* new TextEncoder().encode(s)
RECURSIVE encode(_)
encode(s) ==
  IF s = <<>> THEN <<>>
  ELSE IF Len(s) >= 2 /\ s[1] = "Hi" /\ s[2] = "Lo"
  THEN Astral \o encode(SubSeq(s, 3, Len(s)))
  ELSE IF s[1] \in Surrogates THEN Replacement \o encode(Tail(s))
  ELSE <<s[1]>> \o encode(Tail(s))

\* request bodies: what req.json() makes of them and what `messages` is
Bodies ==
  {[json |-> "invalid", kind |-> "absent", roles |-> <<>>],
   [json |-> "null", kind |-> "absent", roles |-> <<>>],
   [json |-> "object", kind |-> "absent", roles |-> <<>>],
   [json |-> "object", kind |-> "string", roles |-> <<>>]}
  \cup {[json |-> "object", kind |-> "array", roles |-> x] :
          x \in {<<>>, <<"assistant">>, <<"user">>, <<"user", "assistant">>,
                 <<"assistant", "user">>}}

\* await req.json() rejects, or destructuring { messages } of null throws
JsonThrows(body) == body.json \in {"invalid", "null"}
\* !messages || !Array.isArray(messages)
InvalidFormat(body) == body.kind # "array"
\* !lastMessage || lastMessage.role !== 'user'
NoUserMessage(body) ==
  body.roles = <<>> \/ body.roles[Len(body.roles)] # "user"

\* well-formed answers of the model: every surrogate stands in its pair
TextPieces == {<<"a">>, <<"Hi", "Lo">>}
RECURSIVE LlmConcats(_)
LlmConcats(n) ==
  IF n = 0 THEN {<<>>}
  ELSE LET shorter == LlmConcats(n - 1) IN
       shorter \cup {x \o p : x \in shorter, p \in TextPieces}
LlmTexts == LlmConcats(MaxText) \ {<<>>}

\* the ways callGemini25Flash throws, each with the text of its Error
LlmFailures == {"noKey", "timeout", "notOk", "noContent"}
ErrorText(outcome) == <<"E", "r", "r">>
\* analysis.type of analyzeResponse
AnalysisTypes == {"music", "conversation"}

\* the apology with its example snippet
fallbackResponse ==
  <<"s", "o", "r", "r", "y", "\n">> \o Fence
    \o <<"\n", "s", "o", "u", "n", "d", "(", ")", "\n">> \o Fence

\* a catch block that puts the error's message into the answer
CatchTextWithError(error) == fallbackResponse \o error

\* the text the catch block of POST streams
CatchText(error) == fallbackResponse

\* catch (error): console.error, then the fallback stream is returned
Fallback(error) ==
  [relay EXCEPT !.pc = "fallback", !.error = error, !.status = 200,
                !.type = "fallback", !.hasCode = "true",
                !.text = CatchText(error), !.timer = TRUE]

\* POST up to the LLM call: req.json() and the two checks of the body
PostParse(body) ==
  /\ relay.pc = "idle"
  /\ LET arrived == [relay EXCEPT !.body = body] IN
     IF JsonThrows(body)
     THEN relay' = [Fallback(<<"S", "y", "n">>) EXCEPT !.body = body]
     ELSE IF InvalidFormat(body) \/ NoUserMessage(body)
     THEN relay' = [arrived EXCEPT !.pc = "done", !.status = 400]
     ELSE relay' = [arrived EXCEPT !.pc = "calling"]

\* await callGemini25Flash(prompt), analyzeResponse, and the Response with
\* its stream; a throw of the call lands in the catch block
CallGemini ==
  /\ relay.pc = "calling"
  /\ \/ \E outcome \in LlmFailures :
          relay' = [Fallback(ErrorText(outcome)) EXCEPT !.called = TRUE,
                                                       !.outcome = outcome]
     \/ \E text \in LlmTexts, type \in AnalysisTypes :
          relay' = [relay EXCEPT !.pc = "streaming", !.called = TRUE,
                                 !.outcome = "ok", !.status = 200,
                                 !.type = type, !.text = text, !.timer = TRUE]

\* the client cancels the stream or disconnects while it is open: the
\* stream is closed, and cancel() of the source logs and does nothing else
Cancel ==
  /\ relay.pc \in {"streaming", "fallback"}
  /\ relay.closes = 0 /\ ~relay.cancelled
  /\ relay' = [relay EXCEPT !.cancelled = TRUE]

\* the setInterval callback of the stream of the LLM response; on a stream
\* the client has cancelled, controller.enqueue and controller.close throw,
\* and the catch clears the timer and sets isClosed
Tick ==
  /\ relay.pc = "streaming" /\ relay.timer
  /\ IF relay.isClosed
     THEN relay' = [relay EXCEPT !.timer = FALSE]
     ELSE IF relay.cancelled
     THEN relay' = [relay EXCEPT !.lateCall = TRUE, !.timer = FALSE,
                                 !.isClosed = TRUE]
     ELSE IF relay.i < Len(relay.text)
     THEN relay' = [relay EXCEPT
                      !.chunks = Append(@, encode(<<relay.text[relay.i + 1]>>)),
                      !.i = @ + 1]
     ELSE relay' = [relay EXCEPT !.timer = FALSE, !.closes = @ + 1,
                                 !.isClosed = TRUE]

\* the setInterval callback of the fallback stream: no isClosed, no try.
\* On a cancelled stream enqueue throws out of the callback before i++ and
\* before any clearInterval: unless the uncaught exception ends the process
\* the timer stays, and every later callback throws the same way; close
\* throws after clearInterval
FallbackTick ==
  /\ relay.pc = "fallback" /\ relay.timer
  /\ IF relay.cancelled /\ relay.lateCall
     THEN UNCHANGED relay
     ELSE IF relay.cancelled
     THEN \E exits \in BOOLEAN :
            relay' = [relay EXCEPT
                        !.lateCall = TRUE,
                        !.timer = ~(exits \/ relay.i = Len(relay.text))]
     ELSE IF relay.i < Len(relay.text)
     THEN relay' = [relay EXCEPT
                      !.chunks = Append(@, encode(<<relay.text[relay.i + 1]>>)),
                      !.i = @ + 1]
     ELSE relay' = [relay EXCEPT !.timer = FALSE, !.closes = @ + 1]

RelayNext ==
  /\ UNCHANGED <<chats, messages, snippets, nextChat, nextMsg, req, idp, page>>
  /\ \/ \E body \in Bodies : PostParse(body)
     \/ CallGemini
     \/ Tick
     \/ FallbackTick
     \/ Cancel

RelaySpec == Init /\ [][RelayNext]_vars

\* setInterval(..., 10): a timer that is set keeps firing
RelayFairSpec == RelaySpec /\ WF_relay(Tick) /\ WF_relay(FallbackTick)

(***************************************************************************)
(* auth.ts signUp (POST /signup on the public router): the provider's      *)
(* sign-up, then user.create, both inside the callback of                  *)
(* prisma.$transaction.                                                    *)
(***************************************************************************)
SignUpBodies ==
  [username : {"", "n1", "n2"}, email : {"bad", "e1", "e2"},
   password : {"weak", "Pw1!"}]

\* signUpSchema: username non-empty, email of email form, strong password
signUpSchemaOk(body) ==
  body.username # "" /\ body.email # "bad" /\ body.password # "weak"

\* res.status(status).json(...) of signUp
SignUpRespond(status) == [idp EXCEPT !.pc = "done", !.status = status]

SignUpParse(body) ==
  /\ idp.pc \in {"idle", "done"}
  /\ idp' = IF ~signUpSchemaOk(body)
            THEN [idp EXCEPT !.pc = "done", !.body = body, !.identity = 0,
                             !.status = 400]
            ELSE [idp EXCEPT !.pc = "providerSignUp", !.body = body,
                             !.identity = 0, !.status = 0]

\* supabase.auth.signUp({ email, password }): an error (the email is
\* registered already, or the provider cannot be reached) is thrown into the
\* catch; otherwise the provider has created the identity data.user
ProviderSignUp ==
  /\ idp.pc = "providerSignUp"
  /\ \E unreachable \in BOOLEAN :
       idp' = IF unreachable \/ \E i \in idp.identities : i.email = idp.body.email
              THEN SignUpRespond(500)
              ELSE [idp EXCEPT
                      !.pc = "userCreate",
                      !.identity = idp.next,
                      !.identities = @ \cup {[id |-> idp.next,
                                              email |-> idp.body.email]},
                      !.next = @ + 1]

\* the User row of tx.user.create({ data: { id: data.user.id, username, email } })
NewUser == [id |-> idp.identity, username |-> idp.body.username,
            email |-> idp.body.email]

\* tx.user.create, the commit and the 201
UserCreate ==
  /\ idp.pc = "userCreate"
  /\ idp' = [SignUpRespond(201) EXCEPT !.users = @ \cup {NewUser}]

\* tx.user.create or the commit throws: the rollback covers the statements
\* of tx, the provider's identity stays; then the catch answers 500
UserCreateThrows ==
  /\ idp.pc = "userCreate"
  /\ idp' = SignUpRespond(500)

SignUpNext ==
  /\ UNCHANGED <<chats, messages, snippets, nextChat, nextMsg, req, relay, page>>
  /\ \/ \E body \in SignUpBodies : SignUpParse(body)
     \/ ProviderSignUp
     \/ UserCreate
     \/ UserCreateThrows

SignUpSpec == Init /\ [][SignUpNext]_vars

(***************************************************************************)
(* The private router as a whole (part_006:13-38): validateToken, then     *)
(* the chat handlers and the handlers of auth.ts, test, changePassword     *)
(* and logout.  The bodies of changePassword are read by the handler.      *)
(***************************************************************************)
AuthRequests ==
  {[op |-> o, id |-> 0, messageId |-> 0, prompt |-> <<>>, response |-> <<>>] :
     o \in {"test", "changePassword", "logout"}}

ChangePasswordBodies ==
  [oldPassword : {"weak", "Pw1!", "Pw2!"}, newPassword : {"weak", "Pw1!", "Pw2!"}]

\* changePasswordSchema: both passwords are strong
changePasswordSchemaOk(body) ==
  body.oldPassword # "weak" /\ body.newPassword # "weak"

\* res.send("Works!")
Test(r) ==
  /\ req[r].pc = "handler" /\ req[r].op = "test"
  /\ Respond(r, 200, {})
  /\ UNCHANGED <<chats, messages, snippets, nextChat, nextMsg, idp>>

\* changePassword: a ZodError is answered 400; a sign-in with the old
\* password that fails is thrown into the catch (500); then
\* admin.updateUserById sets the new password, or its error is answered 500
ChangePassword(r, body) ==
  /\ req[r].pc = "handler" /\ req[r].op = "changePassword"
  /\ \E updateError \in BOOLEAN :
       IF ~changePasswordSchemaOk(body)
       THEN Respond(r, 400, {}) /\ UNCHANGED idp
       ELSE IF idp.password[req[r].user] # body.oldPassword \/ updateError
       THEN Respond(r, 500, {}) /\ UNCHANGED idp
       ELSE /\ idp' = [idp EXCEPT !.password[req[r].user] = body.newPassword]
            /\ Respond(r, 200, {})
  /\ UNCHANGED <<chats, messages, snippets, nextChat, nextMsg>>

\* logout: supabase.auth.admin.signOut(req.token)
Logout(r) ==
  /\ req[r].pc = "handler" /\ req[r].op = "logout"
  /\ \E error \in BOOLEAN :
       IF error
       THEN Respond(r, 500, {}) /\ UNCHANGED idp
       ELSE /\ idp' = [idp EXCEPT !.signedOut = @ \cup {req[r].token}]
            /\ Respond(r, 200, {})
  /\ UNCHANGED <<chats, messages, snippets, nextChat, nextMsg>>

\* the requests to the private router: the first chat and its first message
GateSent(token) ==
  {q \in Requests \cup AuthRequests :
     /\ q.id <= 1 /\ q.messageId <= 1
     /\ q.op = "append" => q.response # <<>>}

GateNext ==
  /\ UNCHANGED <<relay, page>>
  /\ \E r \in {"r1"} :
       \/ /\ \E token \in Tokens : \E q \in GateSent(token) : validateToken(r, token, q)
          /\ UNCHANGED idp
       \/ Test(r)
       \/ \E body \in ChangePasswordBodies : ChangePassword(r, body)
       \/ Logout(r)
       \/ /\ \/ CreateChat(r)
             \/ UpdateFindChat(r)
             \/ UpdateFindMessage(r)
             \/ UpdateWrite(r)
             \/ ShareFindChat(r)
             \/ ShareUpdate(r)
             \/ UnshareFindChat(r)
             \/ UnshareUpdate(r)
             \/ DeleteFindChat(r)
             \/ DeleteTxFindMessages(r)
             \/ DeleteTxSnippets(r)
             \/ DeleteTxMessages(r)
             \/ DeleteTxChat(r)
             \/ AppendFindChat(r)
             \/ TxCreateUserMessage(r)
             \/ TxCreateUserSnippet(r)
             \/ TxCreateBotMessage(r)
             \/ TxCreateBotSnippets(r)
          /\ UNCHANGED idp

GateSpec == Init /\ [][GateNext]_vars

(***************************************************************************)
(* chat/page.tsx: the chat page.  handleSubmit runs up to each await       *)
(* (fetch, reader.read, generateResponseFromPrompt); stop and the sidebar  *)
(* handlers run between them.  The Chat component shows the Stop button    *)
(* and disables the input while isLoading (chat.tsx:1004-1035).            *)
(***************************************************************************)
\* the text typed into the input, and the text the route streams back
Typed == "p"
Stream == <<"a", "b">>

\* the invocations of handleSubmit so far, in the order of their submits
Submitted == DOMAIN page.turns
InFlight(t) ==
  t \in Submitted /\ page.turns[t].pc \in {"fetch", "read", "save"}

\* finally { setIsLoading(false); abortControllerRef.current = null }
Finally(p) == [p EXCEPT !.isLoading = FALSE, !.ctrl = 0]

\* a catch whose return leaves handleSubmit without running the finally block
AbortReturnSkipsFinally(p) == p

\* catch (error) { if AbortError ... return }: the finally block still runs
AbortReturn(p) == Finally(p)

\* handleInputChange; the input is disabled while isLoading
Type ==
  /\ ~page.isLoading /\ page.input = ""
  /\ page' = [page EXCEPT !.input = Typed]

\* handleSubmit up to await fetch
Submit ==
  /\ page.input # "" /\ ~page.isLoading /\ page.chatId # 0
  /\ page.next <= MaxSubmits
  /\ page' = [page EXCEPT
                 !.messages = Append(@, [chat |-> page.chatId, role |-> "user",
                                         turn |-> page.next]),
                 !.input = "",
                 !.isLoading = TRUE,
                 !.ctrl = page.next,
                 !.turns = Append(@, [NoTurn EXCEPT !.pc = "fetch",
                                                    !.chatId = page.chatId]),
                 !.next = @ + 1]

\* fetch resolved with a body: setMessages((prev) => [...prev, assistantMessage])
FetchResolves(t) ==
  /\ page.turns[t].pc = "fetch"
  /\ page' = [page EXCEPT
                 !.messages = Append(@, [chat |-> page.turns[t].chatId,
                                         role |-> "assistant", turn |-> t]),
                 !.turns[t].pc = "read"]

\* fetch rejected, or !response.ok || !response.body: catch, finally
FetchFails(t) ==
  /\ page.turns[t].pc = "fetch"
  /\ page' = Finally([page EXCEPT !.turns[t].pc = "finished",
                                  !.turns[t].outcome = "streamFailed"])

\* reader.read() gave a chunk: accumulated += chunk
ReadChunk(t) ==
  /\ page.turns[t].pc = "read"
  /\ Len(page.turns[t].accumulated) < Len(Stream)
  /\ page' = [page EXCEPT
                 !.turns[t].accumulated =
                    Append(@, Stream[Len(page.turns[t].accumulated) + 1])]

\* reader.read() gave done: generateResponseFromPrompt(chatId, input, accumulated, token)
ReadDone(t) ==
  /\ page.turns[t].pc = "read"
  /\ page.turns[t].accumulated = Stream
  /\ page' = [page EXCEPT
                 !.saved = @ \cup {[turn |-> t, chatId |-> page.turns[t].chatId,
                                    response |-> page.turns[t].accumulated]},
                 !.turns[t].pc = "save"]

\* reader.read() rejected: inner finally, catch, finally
ReadFails(t) ==
  /\ page.turns[t].pc = "read"
  /\ page' = Finally([page EXCEPT !.turns[t].pc = "finished",
                                  !.turns[t].outcome = "streamFailed"])

\* the save was answered 200: the turn is in the chat
SaveResolves(t) ==
  /\ page.turns[t].pc = "save"
  /\ page.turns[t].chatId \in page.chats
  /\ page' = Finally([page EXCEPT !.persisted = @ \cup {t},
                                  !.turns[t].pc = "finished",
                                  !.turns[t].outcome = "saved"])

\* the save rejected or was answered with an error: throw, catch, finally
SaveFails(t) ==
  /\ page.turns[t].pc = "save"
  /\ page' = Finally([page EXCEPT !.turns[t].pc = "finished",
                                  !.turns[t].outcome = "saveFailed"])

\* stop, behind the Stop button shown while isLoading: abort() rejects the
\* pending fetch or read of the controller's turn with an AbortError, and
\* the catch and the finally of that turn run before the next event; a turn
\* that awaits its save has no signal to abort
Stop ==
  /\ page.isLoading
  /\ page.ctrl # 0
  /\ LET t == page.ctrl
         seen == [page EXCEPT
                    !.isLoading = FALSE,
                    !.turns = [u \in Submitted |->
                                 IF page.turns[u].pc \in {"fetch", "read"}
                                 THEN [page.turns[u] EXCEPT !.stopSeen = TRUE]
                                 ELSE page.turns[u]]]
     IN page' = IF page.turns[t].pc \in {"fetch", "read"}
                THEN AbortReturn([seen EXCEPT !.turns[t].pc = "finished",
                                              !.turns[t].outcome = "aborted"])
                ELSE seen

\* the messages of a chat as getChat returns them: the turns saved in it
RECURSIVE Loaded(_, _)
Loaded(c, t) ==
  IF t = 0 THEN <<>>
  ELSE Loaded(c, t - 1) \o
       (IF t \in page.persisted /\ page.turns[t].chatId = c
        THEN <<[chat |-> c, role |-> "user", turn |-> t],
               [chat |-> c, role |-> "assistant", turn |-> t]>>
        ELSE <<>>)

\* handleSelectChat up to await getChat
SelectStart(c) ==
  /\ page.nav = NoNav /\ c \in page.chats /\ c # page.chatId
  /\ page' = [page EXCEPT !.nav = [op |-> "select", chat |-> c, from |-> page.chatId]]

\* getChat answered: setMessages(convertedMessages); setChatId(selectedChatId);
\* an error response is thrown into the catch
SelectLoaded ==
  /\ page.nav.op = "select"
  /\ page' = IF page.nav.chat \in page.chats
             THEN [page EXCEPT !.messages = Loaded(page.nav.chat, MaxSubmits),
                               !.chatId = page.nav.chat,
                               !.nav = NoNav]
             ELSE [page EXCEPT !.nav = NoNav]

\* handleCreateNewChat up to await createChat
CreateStart ==
  /\ page.nav = NoNav
  /\ page.nextChat <= MaxChats
  /\ page' = [page EXCEPT !.nav = [op |-> "create", chat |-> 0, from |-> page.chatId]]

\* createChat answered: setChatId(createResponse.data.id); setMessages([])
CreateDone ==
  /\ page.nav.op = "create"
  /\ page' = [page EXCEPT !.chats = @ \cup {page.nextChat},
                          !.chatId = page.nextChat,
                          !.nextChat = @ + 1,
                          !.messages = <<>>,
                          !.nav = NoNav]

\* handleDeleteChat up to await deleteChat
DeleteStart(c) ==
  /\ page.nav = NoNav /\ c \in page.chats
  /\ c = page.chatId => page.nextChat <= MaxChats
  /\ page' = [page EXCEPT !.nav = [op |-> "delete", chat |-> c, from |-> page.chatId]]

\* deleteChat answered: the chat and its turns are gone; when the chat was
\* the current one, handleCreateNewChat is called
DeleteDone ==
  /\ page.nav.op = "delete"
  /\ LET c == page.nav.chat
         gone == [page EXCEPT
                    !.chats = @ \ {c},
                    !.persisted = {t \in @ : page.turns[t].chatId # c}]
     IN page' = IF page.nav.from = c
                THEN [gone EXCEPT !.nav = [op |-> "create", chat |-> 0, from |-> c]]
                ELSE [gone EXCEPT !.nav = NoNav]

\* a sidebar call that rejects or answers with an error: console.error
NavFails ==
  /\ page.nav.op \in {"create", "delete"}
  /\ page' = [page EXCEPT !.nav = NoNav]

\* the events of one turn that settle an awaited call
Settle(t) ==
  /\ t \in Submitted
  /\ \/ FetchResolves(t)
     \/ FetchFails(t)
     \/ ReadChunk(t)
     \/ ReadDone(t)
     \/ ReadFails(t)
     \/ SaveResolves(t)
     \/ SaveFails(t)

\* the form, the Stop button and the network events of the turns
PageNext ==
  /\ UNCHANGED <<chats, messages, snippets, nextChat, nextMsg, req, relay, idp>>
  /\ \/ Type
     \/ Submit
     \/ Stop
     \/ \E t \in Turns : Settle(t)

PageSpec == Init /\ [][PageNext]_vars

\* every awaited network call of a turn eventually settles
PageFairSpec == PageSpec /\ \A t \in Turns : WF_page(Settle(t))

\* the sidebar next to the form: selecting, creating and deleting chats
\* while at most MaxShownTurns turns are submitted
NavNext ==
  /\ UNCHANGED <<chats, messages, snippets, nextChat, nextMsg, req, relay, idp>>
  /\ \/ Type
     \/ page.next <= MaxShownTurns /\ Submit
     \/ Stop
     \/ \E t \in Turns : Settle(t)
     \/ \E c \in 1..MaxChats : SelectStart(c)
     \/ SelectLoaded
     \/ CreateStart
     \/ CreateDone
     \/ \E c \in 1..MaxChats : DeleteStart(c)
     \/ DeleteDone
     \/ NavFails

NavSpec == Init /\ [][NavNext]_vars

(***************************************************************************)
(* Properties                                                              *)
(***************************************************************************)
Done(r) == req[r].pc = "done"
\* connection r takes the step
Acts(r) == req'[r] # req[r]
Authenticated(token) == validateJWT(token).ok
UserOf(token) == validateJWT(token).user
DbUnchanged == UNCHANGED <<chats, messages, snippets>>
MessagesIn(id) == {m \in messages : m.chatId = id}
SnippetsIn(id) == {s \in snippets : \E m \in MessagesIn(id) : s.messageId = m.id}

\* C1: getChat answers 200 for a private chat only to a token that validates
\* to the chat's owner, and answers 200 for a public chat whatever the token.
C1_GetChatAccess ==
  \A r \in Reqs :
    (Done(r) /\ req[r].op = "getChat" /\ req[r].id \in DOMAIN chats) =>
      LET chat == chats[req[r].id] IN
      /\ chat.public => req[r].status = 200
      /\ (~chat.public /\ req[r].status = 200) =>
           (Authenticated(req[r].token) /\ UserOf(req[r].token) = chat.userId)
      /\ (~chat.public /\ Authenticated(req[r].token)
            /\ UserOf(req[r].token) = chat.userId) => req[r].status = 200

\* a public chat with messages read without any token
C1_Witness ==
  \E r \in Reqs :
    /\ Done(r) /\ req[r].op = "getChat" /\ req[r].status = 200
    /\ req[r].token = NoToken /\ req[r].body # {}
    /\ req[r].id \in DOMAIN chats /\ chats[req[r].id].public

OwnerOps == {"deleteChat", "shareChat", "unshareChat", "updateChat"}

\* C2: deleteChat, shareChat, unshareChat and updateChat (well-formed) by an
\* authenticated user who is not the chat's owner answer 403 and change no
\* chat, message or snippet.
C2_NonOwnerRejected ==
  [][\A r \in Reqs :
       ( /\ Acts(r) /\ req[r].pc = "handler" /\ req[r].op \in OwnerOps
         /\ req[r].op = "updateChat" => UpdateBodyOk(req[r])
         /\ req[r].id \in DOMAIN chats
         /\ chats[req[r].id].userId # req[r].user )
       => (Done(r)' /\ req'[r].status = 403 /\ DbUnchanged)]_vars

\* a non-owner's deleteChat was answered 403 and the chat, with its turn, is
\* still there
C2_Witness ==
  \E r \in Reqs :
    /\ Done(r) /\ req[r].op = "deleteChat" /\ req[r].status = 403
    /\ req[r].id \in DOMAIN chats
    /\ chats[req[r].id].userId # UserOf(req[r].token)
    /\ MessagesIn(req[r].id) # {} /\ SnippetsIn(req[r].id) # {}

\* C3: a well-formed append-turn request of an authenticated user who is not
\* the chat's owner is answered 403 and creates no message or snippet,
\* whether the chat is private or public.
C3_AppendOwnerOnly ==
  [][\A r \in Reqs :
       ( /\ Acts(r) /\ req[r].pc = "handler" /\ req[r].op = "append"
         /\ AppendBodyOk(req[r])
         /\ req[r].id \in DOMAIN chats
         /\ chats[req[r].id].userId # req[r].user )
       => (Done(r)' /\ req'[r].status = 403 /\ DbUnchanged)]_vars

\* C4: updateChat changes snippets only of a message of the chat named in
\* the URL.
C4_UpdateWithinChat ==
  [][\A r \in Reqs :
       (Acts(r) /\ req[r].op = "updateChat" /\ ~Done(r)) =>
         \A s \in snippets \ snippets' :
           \E m \in messages : m.id = s.messageId /\ m.chatId = req[r].id]_vars

C6_DeleteAtomic ==
  [][\A r \in Reqs :
       (Acts(r) /\ req[r].op = "deleteChat" /\ ~Done(r)) =>
         LET id == req[r].id IN
         /\ (Done(r)' /\ req[r].pc # "handler") => req'[r].status \in {200, 500}
         /\ \/ DbUnchanged /\ (Done(r)' => req'[r].status # 200)
            \/ /\ Done(r)' /\ req'[r].status = 200
               /\ id \in DOMAIN chats
               /\ chats' = [c \in DOMAIN chats \ {id} |-> chats[c]]
               /\ messages' = messages \ MessagesIn(id)
               /\ snippets' = snippets \ SnippetsIn(id)]_vars

\* a delete transaction failed while the chat has a turn: answered 500, and
\* the chat, its messages and their snippets are there
C6_Witness ==
  \E r \in Reqs :
    /\ Done(r) /\ req[r].op = "deleteChat" /\ req[r].status = 500
    /\ req[r].id \in DOMAIN chats
    /\ Cardinality(MessagesIn(req[r].id)) = 2
    /\ Cardinality(SnippetsIn(req[r].id)) = 4

\* C7: a chat appears only through createChat, private and owned by the
\* requester; its owner never changes; its public flag turns true only in a
\* shareChat of its owner answered 200, and after an unshareChat answered 200
\* it is false.
C7_PublicOnlyByOwnerShare ==
  [][\A c \in ChatIds :
       /\ (c \notin DOMAIN chats /\ c \in DOMAIN chats') =>
            \E r \in Reqs :
              /\ Acts(r) /\ req[r].op = "createChat"
              /\ chats'[c] = [userId |-> req[r].user, public |-> FALSE]
       /\ (c \in DOMAIN chats /\ c \in DOMAIN chats') =>
            /\ chats'[c].userId = chats[c].userId
            /\ (~chats[c].public /\ chats'[c].public) =>
                 \E r \in Reqs :
                   /\ Acts(r) /\ req[r].op = "shareChat" /\ req[r].id = c
                   /\ req[r].user = chats[c].userId
                   /\ Done(r)' /\ req'[r].status = 200
            /\ (\E r \in Reqs :
                  /\ Acts(r) /\ req[r].op = "unshareChat" /\ req[r].id = c
                  /\ Done(r)' /\ req'[r].status = 200) => ~chats'[c].public]_vars

\* the owner's shareChat was answered 200 and the chat is public
C7_Witness ==
  \E r \in Reqs :
    /\ Done(r) /\ req[r].op = "shareChat" /\ req[r].status = 200
    /\ req[r].id \in DOMAIN chats /\ chats[req[r].id].public
    /\ chats[req[r].id].userId = UserOf(req[r].token)

C9_CreateThenGet ==
  \A r \in Reqs :
    ( /\ Done(r) /\ req[r].op = "getChat" /\ req[r].id \in DOMAIN chats
      /\ Authenticated(req[r].token)
      /\ UserOf(req[r].token) = chats[req[r].id].userId ) =>
    /\ req[r].status = 200
    /\ MessagesIn(req[r].id) = {} => req[r].body = {}
    /\ {m.id : m \in req[r].body} = {m.id : m \in MessagesIn(req[r].id)}

\* the owner read a private chat without turns while another chat has one
C9_Witness ==
  \E r \in Reqs :
    /\ Done(r) /\ req[r].op = "getChat" /\ req[r].status = 200
    /\ req[r].id \in DOMAIN chats /\ ~chats[req[r].id].public
    /\ UserOf(req[r].token) = chats[req[r].id].userId
    /\ req[r].body = {} /\ MessagesIn(req[r].id) = {} /\ messages # {}

\* the committed turn of SegSpec: the snippets of its BOT message
BotSnippetsIn(r) ==
  {s \in snippets : \E m \in messages : m.from = "BOT" /\ m.id = s.messageId}
OfType(ss, type) == {s \in ss : s.type = type}
Appended(r) == Done(r) /\ req[r].op = "append" /\ req[r].status = 200
OneFencedBlock(response) == Len(MatchAll(response, 0)) = 1
NonBlank(text) == Trim(text) # <<>>

\* C10 as claimed: a response with exactly one terminated fenced block gives
\* the BOT message exactly one CODE snippet and at most one TEXT snippet, with
\* ascending order values.
C10_AtMostOneText ==
  \A r \in Reqs :
    (Appended(r) /\ OneFencedBlock(req[r].response)) =>
      LET ss == BotSnippetsIn(r) IN
      /\ Cardinality(OfType(ss, "CODE")) = 1
      /\ Cardinality(OfType(ss, "TEXT")) <= 1
      /\ {s.order : s \in ss} = 1..Cardinality(ss)

\* C10 amended: exactly one CODE snippet and at most two TEXT snippets, one
\* for the text before the block and one for the text after it, each only
\* when that text is not blank; the order values are 1..n, ascending from the
\* text before, to the block, to the text after.
C10_OneCodeUpToTwoText ==
  \A r \in Reqs :
    (Appended(r) /\ OneFencedBlock(req[r].response)) =>
      LET ss == BotSnippetsIn(r)
          response == req[r].response
          match == MatchAll(response, 0)[1]
          before == Slice(response, 0, match.start)
          after == Slice(response, match.end, Len(response))
          nBefore == IF NonBlank(before) THEN 1 ELSE 0
          nAfter == IF NonBlank(after) THEN 1 ELSE 0
      IN /\ Cardinality(OfType(ss, "CODE")) = 1
         /\ Cardinality(OfType(ss, "TEXT")) = nBefore + nAfter
         /\ Cardinality(ss) = 1 + nBefore + nAfter
         /\ {s.order : s \in ss} = 1..Cardinality(ss)
         /\ \A s \in OfType(ss, "CODE") : s.order = 1 + nBefore
         /\ NonBlank(before) =>
              \E s \in OfType(ss, "TEXT") : s.order = 1 /\ s.content = Trim(before)
         /\ NonBlank(after) =>
              \E s \in OfType(ss, "TEXT") :
                s.order = 2 + nBefore /\ s.content = Trim(after)

\* a turn whose response has text before and after its one fenced block
C10_Witness ==
  \E r \in Reqs :
    /\ Appended(r) /\ OneFencedBlock(req[r].response)
    /\ Cardinality(OfType(BotSnippetsIn(r), "TEXT")) = 2
    /\ Cardinality(OfType(BotSnippetsIn(r), "CODE")) = 1

(***************************************************************************)
(* Segmentation of the response, as seen in the rows of the committed turn *)
(***************************************************************************)
\* the terminated fenced blocks of a response
Blocks(response) == MatchAll(response, 0)
\* the text between the opening and the closing fence of a block
Inner(response, block) == Slice(response, block.start + 3, block.end - 3)
\* a language tag is the run of letters that fills the opening fence's line
WithoutTag(inner) ==
  LET k == LetterRun(inner) IN
  IF k < Len(inner) /\ inner[k + 1] = "\n" THEN Slice(inner, k + 1, Len(inner))
  ELSE inner
\* the text in front of block i, or behind the last block for i = k + 1
GapBefore(response, blocks, i) ==
  Slice(response,
        IF i = 1 THEN 0 ELSE blocks[i - 1].end,
        IF i > Len(blocks) THEN Len(response) ELSE blocks[i].start)
\* how many of the first i gaps hold text
TextsUpTo(response, blocks, i) ==
  Cardinality({j \in 1..i : NonBlank(GapBefore(response, blocks, j))})

\* C11: the CODE snippet of each terminated fenced block holds the text
\* between its fences, without the language tag line and trimmed; a response
\* that is one fenced block with a tag line gives exactly one snippet.
C11_CodeContent ==
  \A r \in Reqs :
    (Appended(r) /\ Blocks(req[r].response) # <<>>) =>
      LET ss == BotSnippetsIn(r)
          response == req[r].response
          blocks == Blocks(response)
      IN /\ \A i \in 1..Len(blocks) :
              \E s \in OfType(ss, "CODE") :
                /\ s.order = i + TextsUpTo(response, blocks, i)
                /\ s.content = Trim(WithoutTag(Inner(response, blocks[i])))
         /\ (Len(blocks) = 1 /\ blocks[1].start = 0
               /\ blocks[1].end = Len(response)) => Cardinality(ss) = 1

\* C19: with k >= 1 terminated fenced blocks the BOT message has snippets of
\* order 1..n without gap or duplicate, ascending with the position in the
\* response: one CODE snippet per block, and one TEXT snippet, holding the
\* trimmed text, for each gap between, before or after blocks that is not
\* blank.
C19_OrdersFollowPosition ==
  \A r \in Reqs :
    (Appended(r) /\ Blocks(req[r].response) # <<>>) =>
      LET ss == BotSnippetsIn(r)
          response == req[r].response
          blocks == Blocks(response)
          k == Len(blocks)
          texts == TextsUpTo(response, blocks, k + 1)
      IN /\ Cardinality(ss) = k + texts
         /\ {s.order : s \in ss} = 1..(k + texts)
         /\ Cardinality(OfType(ss, "CODE")) = k
         /\ Cardinality(OfType(ss, "TEXT")) = texts
         /\ \A i \in 1..k :
              \E s \in OfType(ss, "CODE") :
                s.order = i + TextsUpTo(response, blocks, i)
         /\ \A j \in 1..(k + 1) :
              NonBlank(GapBefore(response, blocks, j)) =>
                \E s \in OfType(ss, "TEXT") :
                  /\ s.order = (j - 1) + TextsUpTo(response, blocks, j)
                  /\ s.content = Trim(GapBefore(response, blocks, j))

\* a turn whose response has two fenced blocks with text between them
C19_Witness ==
  \E r \in Reqs :
    /\ Appended(r) /\ Len(Blocks(req[r].response)) = 2
    /\ \E s \in OfType(BotSnippetsIn(r), "TEXT") : s.order = 2
    /\ \E s \in OfType(BotSnippetsIn(r), "CODE") : s.order = 3

\* sub occurs in s
Contains(s, sub) ==
  \E i \in 0..(Len(s) - Len(sub)) : Slice(s, i, i + Len(sub)) = sub
\* a call name, then any whitespace, then an opening parenthesis
CallWithSpaces(s) ==
  \E name \in CallNames : \E i \in 0..Len(s) : \E j \in 1..Len(s) :
    /\ i + Len(name) < j
    /\ Slice(s, i, i + Len(name)) = name
    /\ s[j] = "("
    /\ \A x \in (i + Len(name) + 1)..(j - 1) : IsSpace(s[x])
\* s with the triple backticks taken out, from left to right
RECURSIVE WithoutFences(_)
WithoutFences(s) ==
  LET i == FindFence(s, 0) IN
  IF i < 0 THEN s
  ELSE Slice(s, 0, i) \o WithoutFences(Slice(s, i + 3, Len(s)))

\* C20 as claimed: without a terminated fenced block the BOT message has one
\* snippet of order 1, of type CODE exactly when the response contains one of
\* setcpm( sound( note( stack( , holding the response without its triple
\* backticks, trimmed.
C20_CodeIffCallForm ==
  \A r \in Reqs :
    (Appended(r) /\ Blocks(req[r].response) = <<>>) =>
      \E s \in BotSnippetsIn(r) :
        /\ BotSnippetsIn(r) = {s}
        /\ s.order = 1
        /\ s.content = Trim(WithoutFences(req[r].response))
        /\ (s.type = "CODE") <=>
             \E name \in CallNames : Contains(req[r].response, name \o <<"(">>)
        /\ s.type \in {"CODE", "TEXT"}

\* C20 amended: the type is CODE exactly when the response contains one of
\* the names setcpm, sound, note, stack followed by optional whitespace and an
\* opening parenthesis.
C20_CodeIffCallWithSpaces ==
  \A r \in Reqs :
    (Appended(r) /\ Blocks(req[r].response) = <<>>) =>
      \E s \in BotSnippetsIn(r) :
        /\ BotSnippetsIn(r) = {s}
        /\ s.order = 1
        /\ s.content = Trim(WithoutFences(req[r].response))
        /\ (s.type = "CODE") <=> CallWithSpaces(req[r].response)
        /\ s.type \in {"CODE", "TEXT"}

\* a turn whose response has an unterminated fence and a call written with a
\* blank before the parenthesis
C20_Witness ==
  \E r \in Reqs :
    /\ Appended(r) /\ Blocks(req[r].response) = <<>>
    /\ FindFence(req[r].response, 0) >= 0
    /\ CallWithSpaces(req[r].response)
    /\ ~\E name \in CallNames : Contains(req[r].response, name \o <<"(">>)
    /\ \E s \in BotSnippetsIn(r) : s.type = "CODE"

\* C14: a request without bearer token on a private route, or a getChat
\* without token on a private chat, is answered 401 or 403.
C14_NoTokenUnauthorized ==
  \A r \in Reqs :
    ( /\ Done(r) /\ req[r].token = NoToken
      /\ \/ req[r].op # "getChat"
         \/ req[r].chat.id # 0 /\ ~req[r].chat.public ) =>
    req[r].status \in {401, 403}

SnippetsOfMessage(ss, id) == {s \in ss : s.messageId = id}

\* C15: an updateChat that reaches a BOT message is answered 403 and changes
\* nothing; as long as a BOT message exists its snippets stay as they are,
\* and a snippet of a remaining message changes only in an updateChat on a
\* USER message, which changes nothing but content.
C15_BotSnippetsFixed ==
  [][/\ \A r \in Reqs :
          ( /\ Acts(r) /\ req[r].op = "updateChat"
            /\ req[r].pc = "updFindMessage"
            /\ \E m \in messages : m.id = req[r].messageId /\ m.from = "BOT" )
          => (Done(r)' /\ req'[r].status = 403 /\ DbUnchanged)
     /\ snippets' = snippets \/ \A m \in messages \cap messages' :
          /\ m.from = "BOT" =>
               SnippetsOfMessage(snippets', m.id) = SnippetsOfMessage(snippets, m.id)
          /\ SnippetsOfMessage(snippets', m.id) # SnippetsOfMessage(snippets, m.id) =>
               /\ m.from = "USER"
               /\ \E r \in Reqs :
                    /\ Acts(r) /\ req[r].op = "updateChat"
                    /\ req[r].messageId = m.id
                    /\ Done(r)' /\ req'[r].status = 200
               /\ {[type |-> s.type, order |-> s.order] :
                      s \in SnippetsOfMessage(snippets', m.id)}
                    = {[type |-> s.type, order |-> s.order] :
                         s \in SnippetsOfMessage(snippets, m.id)}]_vars

\* the owner's updateChat was answered 403, which only the check of the
\* message's direction does, and the BOT message has its snippets
C15_Witness ==
  \E r \in Reqs :
    /\ Done(r) /\ req[r].op = "updateChat" /\ req[r].status = 403
    /\ req[r].chat.id # 0 /\ req[r].chat.userId = UserOf(req[r].token)
    /\ \E m \in messages : m.from = "BOT" /\ SnippetsOfMessage(snippets, m.id) # {}

\* the step of connection r is a Prisma call that throws
PersistenceFails(r) ==
  \/ LookupThrows(r)
  \/ WriteThrows(r)
  \/ DeleteTxThrows(r)
  \/ AppendTxThrows(r)
  \/ \E token \in Tokens, id \in ChatIds : GetChatFindThrows(r, token, id)

\* C12: a chat operation whose lookup, update, delete or append transaction
\* fails answers 500 (never stays without answer) and leaves the tables as
\* they were.
C12_FailureAnswered500 ==
  [][\A r \in Reqs :
       PersistenceFails(r) =>
         (Done(r)' /\ req'[r].status = 500 /\ DbUnchanged)]_vars

ChatOps == OwnerOps \cup {"append"}
\* the id in the URL has not the form of an id, or the body fails its schema
Malformed(q) ==
  \/ q.id = BadId
  \/ q.op = "updateChat" /\ q.messageId = 0
  \/ q.op = "append" /\ (q.prompt = <<>> \/ q.response = <<>>)

\* C13: the six chat operations answer 400 to a malformed id or body and 404
\* to an id that names no chat (updateChat also to a messageId that names no
\* message), and change no chat, message or snippet in either case.
C13_MalformedOrUnknown ==
  [][\A r \in Reqs :
       /\ ( /\ Acts(r) /\ req[r].pc = "handler" /\ req[r].op \in ChatOps
            /\ Malformed(req[r]) )
          => (Done(r)' /\ req'[r].status = 400 /\ DbUnchanged)
       /\ ( /\ Acts(r) /\ req[r].pc = "handler" /\ req[r].op \in ChatOps
            /\ ~Malformed(req[r]) /\ req[r].id \notin DOMAIN chats )
          => (Done(r)' /\ req'[r].status = 404 /\ DbUnchanged)
       /\ ( /\ Acts(r) /\ req[r].pc = "updFindMessage"
            /\ ~\E m \in messages : m.id = req[r].messageId )
          => (Done(r)' /\ req'[r].status = 404 /\ DbUnchanged)
       /\ ( /\ Acts(r) /\ Free(r) /\ Done(r)' /\ req'[r].op = "getChat" )
          => /\ DbUnchanged
             /\ req'[r].id = BadId => req'[r].status = 400
             /\ (req'[r].id # BadId /\ req'[r].id \notin DOMAIN chats)
                  => req'[r].status = 404]_vars

\* the bytes enqueued so far, in the order of their chunks
RECURSIVE Flatten(_)
Flatten(chunks) ==
  IF chunks = <<>> THEN <<>> ELSE Head(chunks) \o Flatten(Tail(chunks))
IsPrefix(x, y) == Len(x) <= Len(y) /\ SubSeq(y, 1, Len(x)) = x

\* C16: when the LLM call fails the endpoint answers 200 with the stream of
\* the fixed apology and X-Jamflow-Type fallback; the bytes sent are a prefix
\* of the apology, all of it once the stream is closed, and no part of the
\* error's text is in the body or in a header.
C16_FallbackOnLlmFailure ==
  relay.outcome \in LlmFailures =>
    /\ relay.pc = "fallback" /\ relay.status = 200
    /\ relay.type = "fallback" /\ relay.hasCode = "true"
    /\ IsPrefix(Flatten(relay.chunks), encode(fallbackResponse))
    /\ relay.closes = 1 => Flatten(relay.chunks) = encode(fallbackResponse)
    /\ relay.closes <= 1
    /\ relay.error # <<>> /\ ~Contains(Flatten(relay.chunks), relay.error)

\* the LLM call failed and the whole apology went out before the close
C16_Witness ==
  /\ relay.outcome \in LlmFailures /\ relay.error # <<>>
  /\ relay.closes = 1 /\ ~relay.timer
  /\ Flatten(relay.chunks) = encode(fallbackResponse)

\* C17: the relay of the LLM response enqueues one chunk per character in
\* index order; the controller is closed at most once, after the last
\* character, with the timer cleared, and then the chunks together are the
\* response.
C17_RelayedTextEqualsResponse ==
  relay.pc = "streaming" =>
    /\ Len(relay.chunks) = relay.i /\ relay.i <= Len(relay.text)
    /\ relay.closes <= 1
    /\ relay.closes = 1 =>
         /\ relay.i = Len(relay.text) /\ ~relay.timer
         /\ Flatten(relay.chunks) = encode(relay.text)

\* the body is no parsable JSON object, or its messages are missing, no
\* array, empty, or do not end with a user message
MalformedBody(body) ==
  \/ body.json # "object"
  \/ body.kind # "array"
  \/ body.roles = <<>>
  \/ body.roles[Len(body.roles)] # "user"

\* C18: a malformed body is answered 400 and the LLM is not called.
C18_MalformedBody400 ==
  (relay.pc # "idle" /\ MalformedBody(relay.body)) =>
    (relay.status = 400 /\ ~relay.called)

(***************************************************************************)
(* C21: a successful append-turn adds exactly two messages to the chat,    *)
(* the USER message created before the BOT message, and the USER message   *)
(* has exactly one snippet (TEXT, order 1, content = prompt); a turn whose *)
(* transaction fails at any statement leaves no message and no snippet.    *)
(***************************************************************************)
TxPcs == {"txUserMessage", "txUserSnippet", "txBotMessage", "txBotSnippets"}

C21_TurnAtomic ==
  [][\A r \in Reqs :
       (req[r].op = "append" /\ req[r].pc \in TxPcs /\ Acts(r)) =>
         IF req'[r].pc = "done" /\ req'[r].status = 200
         THEN LET new == messages' \ messages
                  newSnips == snippets' \ snippets IN
              /\ messages \subseteq messages'
              /\ snippets \subseteq snippets'
              /\ \E u, b \in new :
                   /\ new = {u, b}
                   /\ u.from = "USER" /\ b.from = "BOT"
                   /\ u.id < b.id
                   /\ u.chatId = req[r].chat.id /\ b.chatId = req[r].chat.id
                   /\ {s \in newSnips : s.messageId = u.id} =
                        {[messageId |-> u.id, type |-> "TEXT",
                          content |-> req[r].prompt, order |-> 1]}
                   /\ \A s \in newSnips : s.messageId \in {u.id, b.id}
         ELSE /\ UNCHANGED <<messages, snippets>>
              /\ req'[r].pc = "done" =>
                   /\ \A m \in req[r].insMsgs : m \notin messages'
                   /\ \A s \in req[r].insSnips : s \notin snippets'
  ]_vars

\* an append-turn failed after its first message.create: an id is used up,
\* and the tables hold no message and no snippet
C21_Witness ==
  \E r \in Reqs :
    /\ Done(r) /\ req[r].op = "append" /\ req[r].status = NoAnswer
    /\ nextMsg > 1
    /\ messages = {} /\ snippets = {}

(***************************************************************************)
(* C23: once a signUp request has been answered, every identity that       *)
(* signUp created at the provider has exactly one User row with its id,    *)
(* and every User row has an identity.                                     *)
(***************************************************************************)
C23_IdentityHasUser ==
  idp.pc \in {"idle", "done"} =>
    /\ \A i \in idp.identities :
         Cardinality({u \in idp.users : u.id = i.id}) = 1
    /\ \A u \in idp.users : \E i \in idp.identities : i.id = u.id

(***************************************************************************)
(* C22: a handler of the private router runs only for a request whose      *)
(* bearer token the identity service has validated, with req.user set to   *)
(* the token's user; a request with a missing or invalid token is answered *)
(* by validateToken (400 or 401), reaches no handler and changes nothing.  *)
(***************************************************************************)
HasSession(token) == \E u \in Users : TokenOf[u] = token
SessionUser(token) == CHOOSE u \in Users : TokenOf[u] = token
PrivateOps ==
  {"createChat", "append", "updateChat", "deleteChat", "shareChat",
   "unshareChat", "changePassword", "logout", "test"}

C22_HandlersBehindValidateToken ==
  [][\A r \in Reqs :
       /\ ~Free(r) =>
            /\ req[r].op \in PrivateOps
            /\ HasSession(req[r].token)
            /\ req[r].user = SessionUser(req[r].token)
       /\ (Acts(r) /\ ~HasSession(req'[r].token)) =>
            /\ Free(r) /\ req'[r].pc = "done"
            /\ req'[r].status = IF req'[r].token = NoToken THEN 400 ELSE 401
            /\ DbUnchanged
            /\ UNCHANGED <<nextChat, nextMsg, idp>>
  ]_vars

\* a delete request with an invalid token was refused while the chat it
\* names and a turn in it exist
C22_Witness ==
  \E r \in Reqs :
    /\ Done(r) /\ req[r].op = "deleteChat" /\ req[r].token = "bad"
    /\ req[r].status = 401
    /\ 1 \in DOMAIN chats /\ MessagesIn(1) # {}

(***************************************************************************)
(* C24: generateResponseFromPrompt is called for a turn only once its      *)
(* reader has reported done, with the whole streamed text as the response; *)
(* a turn during whose fetch or reads stop was invoked, or whose fetch or  *)
(* read failed, is never saved.                                            *)
(***************************************************************************)
SaveCalled(t) == \E c \in page.saved : c.turn = t

C24_SavedOnlyAfterDone ==
  /\ \A c \in page.saved :
       /\ page.turns[c.turn].pc \in {"save", "finished"}
       /\ c.response = Stream
  /\ \A t \in Submitted :
       (\/ page.turns[t].stopSeen
        \/ page.turns[t].outcome \in {"aborted", "streamFailed"}) => ~SaveCalled(t)

(***************************************************************************)
(* C27: at most one handleSubmit invocation is between its start and its   *)
(* finally block, and while one is, isLoading is true and                  *)
(* abortControllerRef holds that invocation's controller.                  *)
(***************************************************************************)
TurnsInFlight == {t \in Turns : InFlight(t)}

C27_OneTurnInFlight ==
  /\ Cardinality(TurnsInFlight) <= 1
  /\ \A t \in TurnsInFlight : page.isLoading /\ page.ctrl = t

(***************************************************************************)
(* C28: every message of the displayed list belongs to the chat that       *)
(* chatId names.                                                           *)
(***************************************************************************)
C28_ShownMessagesOfCurrentChat ==
  \A k \in 1..Len(page.messages) : page.messages[k].chat = page.chatId

(***************************************************************************)
(* C29: every handleSubmit that passed its guard eventually reaches its    *)
(* finally block, whether the turn is saved, aborted, fails to stream or   *)
(* fails to save, and that step sets isLoading to false and                *)
(* abortControllerRef to null; isLoading is true only while a turn is in   *)
(* flight.                                                                 *)
(***************************************************************************)
Finished(t) == t \in Submitted /\ page.turns[t].pc = "finished"
Finishes(t) == InFlight(t) /\ page'.turns[t].pc = "finished"

C25_TimerClearedNoLateCall ==
  /\ relay.cancelled ~> ~relay.timer
  /\ [][relay.cancelled => relay'.chunks = relay.chunks]_vars
  /\ [](~relay.lateCall)

(***************************************************************************)
(* C26: in the messages of a chat ordered by creation time, the messages   *)
(* at odd positions are USER messages and those at even positions are BOT  *)
(* messages, so that each BOT message directly follows a USER message.     *)
(***************************************************************************)
PositionIn(id, m) ==
  Cardinality({x \in MessagesIn(id) : CreatedBefore(x, m)}) + 1

C26_TurnsAlternate ==
  \A id \in DOMAIN chats : \A m \in MessagesIn(id) :
    m.from = (IF PositionIn(id, m) % 2 = 1 THEN "USER" ELSE "BOT")

(***************************************************************************)
(* C30: every snippet an append-turn creates has content that is not empty *)
(* after trimming: the TEXT segments, the CODE segments of fenced blocks   *)
(* and the single snippet of a response without a fenced block.            *)
(***************************************************************************)
C30_SnippetContentNonEmpty ==
  \A s \in snippets : Trim(s.content) # <<>>

====
